---- MODULE Spec2Model ----
(***************************************************************************)
(* State-machine model of contracts/OrderBookDEX.sol: the on-chain limit   *)
(* order book (pair registry, order store, balance ledger, matching and    *)
(* market-order execution).  Every external function is one atomic action  *)
(* (a transaction); a revert leaves the contract state untouched and only  *)
(* records the revert reason in `last`.                                    *)
(***************************************************************************)
EXTENDS Integers, Sequences, FiniteSets, TLC

(* ------------------------------ bounds --------------------------------- *)
\* number of limit orders that may be created (ids 0 .. MaxOrders-1)
MaxOrders == 3
\* number of market orders that may be filled
MaxMarketOrders == 1
\* number of withdrawals that may succeed
MaxWithdrawals == 1

(* --------------------------- input domains ----------------------------- *)
ZeroAddress == 0
Accounts == {1, 2}
Tokens == {1, 2}
\* deployer of the contract, Ownable(msg.sender)
owner == 1
OrderIds == 0 .. MaxOrders
\* calls <<msg.sender, baseToken, quoteToken, minOrderSize, pricePrecision>> of addTradingPair
PairInputs ==
    {<<1, 1, 2, 0, 2>>, <<1, 2, 1, 500, 2>>, <<2, 1, 2, 0, 2>>}
\* calls <<msg.sender, baseToken, quoteToken, amount, price, isBuy>> of placeLimitOrder
LimitInputs ==
    {<<1, 1, 2, 1000, 2, TRUE>>,  <<1, 1, 2, 400, 3, TRUE>>,
     <<2, 1, 2, 1000, 2, FALSE>>, <<2, 1, 2, 400, 3, FALSE>>,
     <<2, 1, 2, 0, 2, TRUE>>,     <<2, 2, 1, 1000, 2, TRUE>>}
\* calls <<msg.sender, baseToken, quoteToken, amount, isBuy>> of placeMarketOrder
MarketInputs ==
    {<<1, 1, 2, 400, TRUE>>, <<2, 1, 2, 1400, FALSE>>}

(* ---------------------------- constants -------------------------------- *)
FEE_DENOMINATOR == 10000
TRADING_FEE == 30
\* stands for type(uint256).max: larger than every price of the model
MAX_UINT == 2147483647

VARIABLES
    orderIdCounter,   \* _orderIdCounter
    orders,           \* mapping(uint256 => Order)
    tradingPairs,     \* mapping(address => mapping(address => TradingPair))
    userOrders,       \* mapping(address => uint256[])
    balances,         \* mapping(address => mapping(address => uint256))
    held,             \* token => IERC20(token).balanceOf(address(this))
    last,             \* outcome of the last transaction (revert reason, events, locals)
    marketCount,      \* number of successful placeMarketOrder transactions
    withdrawCount,    \* number of successful withdraw transactions
    entitled,         \* history: deposits + proceeds - payments - withdrawals - refunds
    initialAmount,    \* history: amount of each order at creation
    refunds,          \* history: the amounts transferred out by cancelOrder, per order id
    filled,           \* history: base quantity traded against each order, per order id
    escrowed,         \* history: the tokens placeLimitOrder pulled in for each order
    paid,             \* history: quote credited to sellers by the matches of each buy order
    entered,          \* ReentrancyGuard: _status == ENTERED
    suspended         \* the calls in progress, each waiting in its external token call

vars == <<orderIdCounter, orders, tradingPairs, userOrders, balances, held,
          last, marketCount, withdrawCount, entitled, initialAmount, refunds, filled,
          escrowed, paid, entered, suspended>>

\* the storage of the contract and of the tokens
chain == <<orderIdCounter, orders, tradingPairs, userOrders, balances, held>>
history == <<entitled, initialAmount, refunds, filled, escrowed, paid>>
counts == <<marketCount, withdrawCount>>
\* the reentrancy lock and the call stack
guard == <<entered, suspended>>

(* ----------------------------- records --------------------------------- *)
\* default value of an unset mapping slot orders[i]
ZeroOrder ==
    [id |-> 0, trader |-> ZeroAddress, baseToken |-> ZeroAddress,
     quoteToken |-> ZeroAddress, amount |-> 0, price |-> 0,
     isBuy |-> FALSE, isActive |-> FALSE]

\* default value of an unset mapping slot tradingPairs[b][q]
ZeroPair ==
    [baseToken |-> ZeroAddress, quoteToken |-> ZeroAddress, isActive |-> FALSE,
     minOrderSize |-> 0, pricePrecision |-> 0]

\* locals of _executeMatch as seen through OrderMatched; matched = FALSE when no match ran
NoMatch ==
    [matched |-> FALSE, buyOrderId |-> 0, sellOrderId |-> 0, matchAmount |-> 0,
     matchPrice |-> 0, tradingFee |-> 0, baseAmount |-> 0, quoteAmount |-> 0]

\* what a transaction leaves behind: the function, "ok" or the revert reason, the order id
\* it was about (placeLimitOrder, cancelOrder), the match it ran, the orders a market walk
\* consumed and the cost or revenue the walk added up
Outcome(op, result, orderId, match, consumed, total) ==
    [op |-> op, result |-> result, orderId |-> orderId, match |-> match,
     consumed |-> consumed, total |-> total]

\* a transaction with nothing to report but its result
Reverted(op, reason) == Outcome(op, reason, 0, NoMatch, {}, 0)

Init ==
    /\ orderIdCounter = 0
    /\ orders = [i \in OrderIds |-> ZeroOrder]
    /\ tradingPairs = [p \in Tokens \X Tokens |-> ZeroPair]
    /\ userOrders = [a \in Accounts |-> <<>>]
    /\ balances = [a \in Accounts |-> [t \in Tokens |-> 0]]
    /\ held = [t \in Tokens |-> 0]
    /\ last = Reverted("deploy", "ok")
    /\ marketCount = 0
    /\ withdrawCount = 0
    /\ entitled = [a \in Accounts |-> [t \in Tokens |-> 0]]
    /\ initialAmount = [i \in OrderIds |-> 0]
    /\ refunds = [i \in OrderIds |-> <<>>]
    /\ filled = [i \in OrderIds |-> 0]
    /\ escrowed = [i \in OrderIds |-> 0]
    /\ paid = [i \in OrderIds |-> 0]
    /\ entered = FALSE
    /\ suspended = <<>>

(* ---------------------------- token calls ------------------------------ *)
\* what a call meets outside the contract: env.funded, the caller holds and has approved
\* what transferFrom is to pull; env.reverts, the token reverts a transfer it cannot make
\* (ERC20 of OpenZeppelin, MonadToken) instead of returning false
FundedCaller == [funded |-> TRUE, reverts |-> TRUE]

\* IERC20(token).transferFrom(msg.sender, address(this), amount): "moved", "reverted" or
\* "false" (nothing moved, false returned; the contract drops the return value)
transferFrom(env) ==
    IF env.funded THEN "moved" ELSE IF env.reverts THEN "reverted" ELSE "false"

\* IERC20(token).transfer(msg.sender, amount) out of the `available` tokens of the contract
transfer(env, available, amount) ==
    IF available >= amount THEN "moved" ELSE IF env.reverts THEN "reverted" ELSE "false"

(* --------------------------- addTradingPair ---------------------------- *)
\* faulty variant of onlyOwner: the modifier is missing
onlyOwnerAnyone(caller) == TRUE

\* the modifier onlyOwner of Ownable: the caller is the owner
onlyOwner(caller) == caller = owner

addTradingPair(caller, baseToken, quoteToken, minOrderSize, pricePrecision) ==
    IF ~onlyOwner(caller)
    THEN /\ last' = Reverted("addTradingPair", "OwnableUnauthorizedAccount")
         /\ UNCHANGED <<chain, counts, history>>
    ELSE IF baseToken = quoteToken
    THEN /\ last' = Reverted("addTradingPair", "Tokens must be different")
         /\ UNCHANGED <<chain, counts, history>>
    ELSE IF baseToken = ZeroAddress \/ quoteToken = ZeroAddress
    THEN /\ last' = Reverted("addTradingPair", "Invalid token addresses")
         /\ UNCHANGED <<chain, counts, history>>
    ELSE /\ tradingPairs' = [tradingPairs EXCEPT ![<<baseToken, quoteToken>>] =
                [baseToken |-> baseToken, quoteToken |-> quoteToken, isActive |-> TRUE,
                 minOrderSize |-> minOrderSize, pricePrecision |-> pricePrecision]]
         /\ last' = Reverted("addTradingPair", "ok")
         /\ UNCHANGED <<orderIdCounter, orders, userOrders, balances, held,
                        counts, history>>

(* --------------------------- nonReentrant ------------------------------ *)
\* faulty variant of nonReentrant: the modifier is missing
nonReentrantMissing(status) == TRUE

\* the entry check of the modifier nonReentrant of ReentrancyGuard: not ENTERED
nonReentrant(status) == ~status

(* ------------------------ matching engine ------------------------------ *)
\* faulty variant of IsCandidate: the scan forgets the pair test
IsCandidateAnyPair(order, baseToken, quoteToken) == order.isActive

\* faulty variant of IsCandidate: the scan forgets the isActive test
IsCandidateIgnoringActive(order, baseToken, quoteToken) ==
    /\ order.baseToken = baseToken
    /\ order.quoteToken = quoteToken

\* the filter of every scan over the order table: active and of exactly this pair
IsCandidate(order, baseToken, quoteToken) ==
    /\ order.isActive
    /\ order.baseToken = baseToken
    /\ order.quoteToken = quoteToken

\* initial values of the four locals of _tryMatchOrders
InitialBest ==
    [bestBuyPrice |-> 0, bestSellPrice |-> MAX_UINT, bestBuyOrderId |-> 0, bestSellOrderId |-> 0]

\* faulty variant of ScanStep: an order that only equals the best price replaces the best
ScanStepLastWins(best, order, i, baseToken, quoteToken) ==
    IF IsCandidate(order, baseToken, quoteToken)
    THEN IF order.isBuy /\ order.price >= best.bestBuyPrice
         THEN [best EXCEPT !.bestBuyPrice = order.price, !.bestBuyOrderId = i]
         ELSE IF ~order.isBuy /\ order.price <= best.bestSellPrice
         THEN [best EXCEPT !.bestSellPrice = order.price, !.bestSellOrderId = i]
         ELSE best
    ELSE best

\* one iteration of the scan loop of _tryMatchOrders
ScanStep(best, order, i, baseToken, quoteToken) ==
    IF IsCandidate(order, baseToken, quoteToken)
    THEN IF order.isBuy /\ order.price > best.bestBuyPrice
         THEN [best EXCEPT !.bestBuyPrice = order.price, !.bestBuyOrderId = i]
         ELSE IF ~order.isBuy /\ order.price < best.bestSellPrice
         THEN [best EXCEPT !.bestSellPrice = order.price, !.bestSellOrderId = i]
         ELSE best
    ELSE best

RECURSIVE FindBest(_, _, _, _, _, _)
\* the loop for (i = from; i < counter; i++) of _tryMatchOrders
FindBest(ords, counter, from, best, baseToken, quoteToken) ==
    IF from >= counter
    THEN best
    ELSE FindBest(ords, counter, from + 1,
                  ScanStep(best, ords[from], from, baseToken, quoteToken),
                  baseToken, quoteToken)

\* faulty variant of ShouldMatch: the two best prices are not compared
ShouldMatchAnyPrice(best) ==
    /\ best.bestBuyOrderId # 0
    /\ best.bestSellOrderId # 0

\* the condition under which _tryMatchOrders calls _executeMatch
ShouldMatch(best) ==
    /\ best.bestBuyPrice >= best.bestSellPrice
    /\ best.bestBuyOrderId # 0
    /\ best.bestSellOrderId # 0

\* faulty variant of MatchPrice: the match executes at the buyer's limit
MatchPriceAtBuyLimit(buyPrice, sellPrice) == buyPrice

\* the price a match executes at
MatchPrice(buyPrice, sellPrice) == (buyPrice + sellPrice) \div 2

\* the fee taken out of the base leg
TradingFee(matchAmount) == (matchAmount * TRADING_FEE) \div FEE_DENOMINATOR

\* the locals of _executeMatch; pricePrecision # 0 (a zero divisor reverts the call)
MatchLocals(buyOrder, sellOrder, pricePrecision) ==
    LET matchAmount == IF buyOrder.amount < sellOrder.amount
                       THEN buyOrder.amount ELSE sellOrder.amount
        matchPrice == MatchPrice(buyOrder.price, sellOrder.price)
        tradingFee == TradingFee(matchAmount)
        baseAmount == matchAmount - tradingFee
    IN  [matched |-> TRUE, buyOrderId |-> buyOrder.id, sellOrderId |-> sellOrder.id,
         matchAmount |-> matchAmount, matchPrice |-> matchPrice,
         tradingFee |-> tradingFee, baseAmount |-> baseAmount,
         quoteAmount |-> (baseAmount * matchPrice) \div pricePrecision]

\* faulty variant of Filled: an order filled down to 0 stays active
FilledStaysActive(order, matchAmount) ==
    [order EXCEPT !.amount = order.amount - matchAmount]

\* an order after amount -= matchAmount and the deactivation at 0
Filled(order, matchAmount) ==
    [order EXCEPT !.amount = order.amount - matchAmount,
                  !.isActive = IF order.amount - matchAmount = 0 THEN FALSE ELSE order.isActive]

\* the order table after _executeMatch
MatchOrders(ords, m) ==
    [ords EXCEPT ![m.buyOrderId] = Filled(ords[m.buyOrderId], m.matchAmount),
                 ![m.sellOrderId] = Filled(ords[m.sellOrderId], m.matchAmount)]

\* the ledger after _executeMatch: only the two credits, nothing is debited
MatchBalances(bals, ords, m) ==
    LET buyOrder == ords[m.buyOrderId]
        sellOrder == ords[m.sellOrderId]
        b1 == [bals EXCEPT ![buyOrder.trader][buyOrder.baseToken] = @ + m.baseAmount]
    IN  [b1 EXCEPT ![sellOrder.trader][buyOrder.quoteToken] = @ + m.quoteAmount]

\* history: what the two traders are owed and owe after a trade
MatchEntitled(ent, ords, m) ==
    LET buyOrder == ords[m.buyOrderId]
        sellOrder == ords[m.sellOrderId]
        e1 == [ent EXCEPT ![buyOrder.trader][buyOrder.baseToken] = @ + m.baseAmount]
        e2 == [e1 EXCEPT ![sellOrder.trader][buyOrder.quoteToken] = @ + m.quoteAmount]
        e3 == [e2 EXCEPT ![buyOrder.trader][buyOrder.quoteToken] = @ - m.quoteAmount]
    IN  [e3 EXCEPT ![sellOrder.trader][buyOrder.baseToken] = @ - m.matchAmount]

\* history: the quantity of a match counted against both of its orders
MatchFilled(fil, m) ==
    [fil EXCEPT ![m.buyOrderId] = @ + m.matchAmount, ![m.sellOrderId] = @ + m.matchAmount]

\* history: the quote a match credits to the seller, counted against the buy order
MatchPaid(pd, m) ==
    [pd EXCEPT ![m.buyOrderId] = @ + m.quoteAmount]

(* --------------------------- placeLimitOrder --------------------------- *)
\* faulty variant of PairIsActive: the pair gate is missing
PairIsActiveAlways(pair) == TRUE

\* require(pair.isActive, "Trading pair not active")
PairIsActive(pair) == pair.isActive

\* faulty variant of MeetsMinOrderSize: the size check is missing
MeetsMinOrderSizeAlways(pair, amount) == TRUE

\* require(amount >= pair.minOrderSize, "Order size too small")
MeetsMinOrderSize(pair, amount) == amount >= pair.minOrderSize

\* faulty variant of EscrowAmount: the escrow of a buy is not scaled down
EscrowAmountUnscaled(amount, price, isBuy, pricePrecision) ==
    IF isBuy THEN amount * price ELSE amount

\* the escrow pulled from the trader; a buy divides by pricePrecision
EscrowAmount(amount, price, isBuy, pricePrecision) ==
    IF isBuy THEN (amount * price) \div pricePrecision ELSE amount

\* faulty variant of push: the id is not recorded in the list
pushNothing(list, orderId) == list

\* userOrders[msg.sender].push(orderId)
push(list, orderId) == Append(list, orderId)

\* placeLimitOrder called in env, with room for `capacity` orders in the model's table
placeLimitOrderIn(env, capacity, caller, baseToken, quoteToken, amount, price, isBuy) ==
    LET pair == tradingPairs[<<baseToken, quoteToken>>]
        op == "placeLimitOrder"
        pulled == transferFrom(env)
        fail(reason) == /\ last' = Reverted(op, reason)
                        /\ UNCHANGED <<chain, counts, history>>
    IN
    /\ IF ~PairIsActive(pair) THEN fail("Trading pair not active")
       ELSE IF ~MeetsMinOrderSize(pair, amount) THEN fail("Order size too small")
       ELSE IF ~(price > 0) THEN fail("Invalid price")
       ELSE IF isBuy /\ pair.pricePrecision = 0 THEN fail("Panic(0x12)")
       ELSE IF pulled = "reverted" THEN fail("ERC20InsufficientAllowance")
       ELSE
         LET escrowToken == IF isBuy THEN quoteToken ELSE baseToken
             escrow == EscrowAmount(amount, price, isBuy, pair.pricePrecision)
             deposit == IF pulled = "moved" THEN escrow ELSE 0
             bal1 == [balances EXCEPT ![caller][escrowToken] = @ + escrow]
             ent1 == [entitled EXCEPT ![caller][escrowToken] = @ + deposit]
             orderId == orderIdCounter
             ords1 == [orders EXCEPT ![orderId] =
                          [id |-> orderId, trader |-> caller, baseToken |-> baseToken,
                           quoteToken |-> quoteToken, amount |-> amount, price |-> price,
                           isBuy |-> isBuy, isActive |-> TRUE]]
             best == FindBest(ords1, orderIdCounter + 1, 0, InitialBest, baseToken, quoteToken)
             buyOrder == ords1[best.bestBuyOrderId]
             sellOrder == ords1[best.bestSellOrderId]
             pp == tradingPairs[<<buyOrder.baseToken, buyOrder.quoteToken>>].pricePrecision
             m == MatchLocals(buyOrder, sellOrder, pp)
         IN
         /\ orderIdCounter < capacity
         /\ IF ShouldMatch(best) /\ pp = 0 THEN fail("Panic(0x12)")
            ELSE
           /\ held' = [held EXCEPT ![escrowToken] = @ + deposit]
           /\ orderIdCounter' = orderIdCounter + 1
           /\ userOrders' = [userOrders EXCEPT ![caller] = push(@, orderId)]
           /\ initialAmount' = [initialAmount EXCEPT ![orderId] = amount]
           /\ escrowed' = [escrowed EXCEPT ![orderId] = deposit]
           /\ IF ShouldMatch(best)
              THEN /\ orders' = MatchOrders(ords1, m)
                   /\ balances' = MatchBalances(bal1, ords1, m)
                   /\ entitled' = MatchEntitled(ent1, ords1, m)
                   /\ filled' = MatchFilled(filled, m)
                   /\ paid' = MatchPaid(paid, m)
                   /\ last' = Outcome(op, "ok", orderId, m, {}, 0)
              ELSE /\ orders' = ords1
                   /\ balances' = bal1
                   /\ entitled' = ent1
                   /\ filled' = filled
                   /\ paid' = paid
                   /\ last' = Outcome(op, "ok", orderId, NoMatch, {}, 0)
           /\ UNCHANGED <<tradingPairs, counts, refunds>>

\* placeLimitOrder by a funded caller
placeLimitOrder(caller, baseToken, quoteToken, amount, price, isBuy) ==
    placeLimitOrderIn(FundedCaller, MaxOrders, caller, baseToken, quoteToken, amount, price,
                      isBuy)

(* ----------------------------- cancelOrder ----------------------------- *)
\* faulty variant of Covers: the subtraction is not checked
CoversAlways(balance, amount) == TRUE

\* the check of `balance -= amount` (checked arithmetic) and of
\* require(balances[msg.sender][token] >= amount)
Covers(balance, amount) == balance >= amount

\* faulty variant of IsOwner: anybody may cancel
IsOwnerAnyone(order, caller) == TRUE

\* require(order.trader == msg.sender)
IsOwner(order, caller) == order.trader = caller

\* faulty variant of IsCancellable: an inactive order can be cancelled again
IsCancellableAlways(order) == TRUE

\* require(order.isActive)
IsCancellable(order) == order.isActive

\* faulty variant of Cancelled: the cancelled order also loses its remaining amount
CancelledAndCleared(order) == [order EXCEPT !.isActive = FALSE, !.amount = 0]

\* order.isActive = false, the only write of cancelOrder to the order
Cancelled(order) == [order EXCEPT !.isActive = FALSE]

\* the tokens handed back for the unfilled remainder of an order
RefundAmount(order, pricePrecision) ==
    IF order.isBuy THEN (order.amount * order.price) \div pricePrecision ELSE order.amount

\* cancelOrder called in env
cancelOrderIn(env, caller, orderId) ==
    LET order == orders[orderId]
        op == "cancelOrder"
        pp == tradingPairs[<<order.baseToken, order.quoteToken>>].pricePrecision
        token == IF order.isBuy THEN order.quoteToken ELSE order.baseToken
        refund == RefundAmount(order, pp)
        sent == IF transfer(env, held[token], refund) = "moved" THEN refund ELSE 0
        fail(reason) == /\ last' = Outcome(op, reason, orderId, NoMatch, {}, 0)
                        /\ UNCHANGED <<chain, counts, history>>
    IN
    IF ~IsOwner(order, caller) THEN fail("Not your order")
    ELSE IF ~IsCancellable(order) THEN fail("Order already cancelled")
    ELSE IF order.isBuy /\ pp = 0 THEN fail("Panic(0x12)")
    ELSE IF ~Covers(balances[caller][token], refund) THEN fail("Panic(0x11)")
    ELSE IF transfer(env, held[token], refund) = "reverted"
    THEN fail("ERC20InsufficientBalance")
    ELSE /\ orders' = [orders EXCEPT ![orderId] = Cancelled(order)]
         /\ balances' = [balances EXCEPT ![caller][token] = @ - refund]
         /\ held' = [held EXCEPT ![token] = @ - sent]
         /\ entitled' = [entitled EXCEPT ![caller][token] = @ - sent]
         /\ refunds' = [refunds EXCEPT ![orderId] = Append(@, sent)]
         /\ last' = Outcome(op, "ok", orderId, NoMatch, {}, 0)
         /\ UNCHANGED <<orderIdCounter, tradingPairs, userOrders, counts, initialAmount,
                        filled, escrowed, paid>>

\* cancelOrder with a token that reverts a transfer it cannot make
cancelOrder(caller, orderId) == cancelOrderIn(FundedCaller, caller, orderId)

(* ------------------------------ withdraw ------------------------------- *)
\* withdraw called in env
withdrawIn(env, caller, token, amount) ==
    LET op == "withdraw"
        sent == IF transfer(env, held[token], amount) = "moved" THEN amount ELSE 0
        fail(reason) == /\ last' = Reverted(op, reason)
                        /\ UNCHANGED <<chain, counts, history>>
    IN
    IF ~Covers(balances[caller][token], amount) THEN fail("Insufficient balance")
    ELSE IF transfer(env, held[token], amount) = "reverted"
    THEN fail("ERC20InsufficientBalance")
    ELSE /\ withdrawCount < MaxWithdrawals
         /\ withdrawCount' = withdrawCount + 1
         /\ balances' = [balances EXCEPT ![caller][token] = @ - amount]
         /\ held' = [held EXCEPT ![token] = @ - sent]
         /\ entitled' = [entitled EXCEPT ![caller][token] = @ - sent]
         /\ last' = Reverted(op, "ok")
         /\ UNCHANGED <<orderIdCounter, orders, tradingPairs, userOrders, marketCount,
                        initialAmount, refunds, filled, escrowed, paid>>

\* withdraw with a token that reverts a transfer it cannot make
withdraw(caller, token, amount) == withdrawIn(FundedCaller, caller, token, amount)

\* the amounts a caller tries to withdraw: a fixed lot, the whole balance, one more than it
WithdrawAmounts(caller, token) ==
    {400, balances[caller][token], balances[caller][token] + 1} \ {0}

(* --------------------------- placeMarketOrder -------------------------- *)
\* faulty variant of Cost: the product is not scaled down by the price precision
CostUnscaled(matchAmount, price, pricePrecision) == matchAmount * price

\* cost of a market buy, revenue of a market sell, against one resting order
Cost(matchAmount, price, pricePrecision) == (matchAmount * price) \div pricePrecision

RECURSIVE MarketWalk(_, _, _, _, _, _, _)
\* the loop of _executeMarketBuy (wantBuy = FALSE: resting sells) and of
\* _executeMarketSell (wantBuy = TRUE: resting buys);
\* acc = [remaining, total, consumed, fills, panic], fills[i] = matchAmount against order i
MarketWalk(ords, counter, i, acc, wantBuy, baseToken, quoteToken) ==
    IF ~(i < counter /\ acc.remaining > 0) \/ acc.panic
    THEN acc
    ELSE LET order == ords[i]
             pp == tradingPairs[<<baseToken, quoteToken>>].pricePrecision
             matchAmount == IF acc.remaining < order.amount THEN acc.remaining ELSE order.amount
         IN  IF IsCandidate(order, baseToken, quoteToken) /\ order.isBuy = wantBuy
             THEN IF pp = 0
                  THEN [acc EXCEPT !.panic = TRUE]
                  ELSE MarketWalk(ords, counter, i + 1,
                          [remaining |-> acc.remaining - matchAmount,
                           total |-> acc.total + Cost(matchAmount, order.price, pp),
                           consumed |-> acc.consumed \cup {i},
                           fills |-> [acc.fills EXCEPT ![i] = matchAmount],
                           panic |-> FALSE],
                          wantBuy, baseToken, quoteToken)
             ELSE MarketWalk(ords, counter, i + 1, acc, wantBuy, baseToken, quoteToken)

\* placeMarketOrder called in env
placeMarketOrderIn(env, caller, baseToken, quoteToken, amount, isBuy) ==
    LET pair == tradingPairs[<<baseToken, quoteToken>>]
        op == "placeMarketOrder"
        pulled == transferFrom(env)
        fail(reason) == /\ last' = Reverted(op, reason)
                        /\ UNCHANGED <<chain, counts, history>>
        walk == MarketWalk(orders, orderIdCounter, 0,
                           [remaining |-> amount, total |-> 0, consumed |-> {},
                            fills |-> [i \in OrderIds |-> 0], panic |-> FALSE],
                           ~isBuy, baseToken, quoteToken)
        inToken == IF isBuy THEN quoteToken ELSE baseToken
        inAmount == IF isBuy THEN walk.total ELSE amount
        outToken == IF isBuy THEN baseToken ELSE quoteToken
        outAmount == IF isBuy THEN amount ELSE walk.total
    IN
    IF ~PairIsActive(pair) THEN fail("Trading pair not active")
    ELSE IF ~MeetsMinOrderSize(pair, amount) THEN fail("Order size too small")
    ELSE IF walk.panic THEN fail("Panic(0x12)")
    ELSE IF ~(walk.remaining = 0) THEN fail("Insufficient liquidity")
    ELSE IF pulled = "reverted" THEN fail("ERC20InsufficientAllowance")
    ELSE /\ marketCount < MaxMarketOrders
         /\ marketCount' = marketCount + 1
         /\ held' = [held EXCEPT ![inToken] = @ + (IF pulled = "moved" THEN inAmount ELSE 0)]
         /\ balances' = [balances EXCEPT ![caller][outToken] = @ + outAmount]
         /\ entitled' = [entitled EXCEPT ![caller][outToken] = @ + outAmount]
         /\ filled' = [i \in OrderIds |-> filled[i] + walk.fills[i]]
         /\ last' = Outcome(op, "ok", 0, NoMatch, walk.consumed, walk.total)
         /\ UNCHANGED <<orderIdCounter, orders, tradingPairs, userOrders,
                        withdrawCount, initialAmount, refunds, escrowed, paid>>

\* placeMarketOrder by a funded caller
placeMarketOrder(caller, baseToken, quoteToken, amount, isBuy) ==
    placeMarketOrderIn(FundedCaller, caller, baseToken, quoteToken, amount, isBuy)

(* ------------------------------- views -------------------------------- *)
\* the four arrays getOrderBook returns, before the scan
EmptyBook == [buyPrices |-> <<>>, buyAmounts |-> <<>>, sellPrices |-> <<>>, sellAmounts |-> <<>>]

RECURSIVE BookScan(_, _, _, _, _)
\* the loop for (i = 0; i < _orderIdCounter; i++) of getOrderBook that fills the arrays
BookScan(i, counter, book, baseToken, quoteToken) ==
    IF i >= counter
    THEN book
    ELSE LET order == orders[i]
             next == IF IsCandidate(order, baseToken, quoteToken)
                     THEN IF order.isBuy
                          THEN [book EXCEPT !.buyPrices = Append(@, order.price),
                                            !.buyAmounts = Append(@, order.amount)]
                          ELSE [book EXCEPT !.sellPrices = Append(@, order.price),
                                            !.sellAmounts = Append(@, order.amount)]
                     ELSE book
         IN  BookScan(i + 1, counter, next, baseToken, quoteToken)

\* getOrderBook(baseToken, quoteToken): a view, it reads the state and returns
getOrderBook(baseToken, quoteToken) ==
    BookScan(0, orderIdCounter, EmptyBook, baseToken, quoteToken)

\* getUserOrders(user): the ids of userOrders[user] whose order is active, in list order
getUserOrders(user) ==
    SelectSeq(userOrders[user], LAMBDA id : orders[id].isActive)

Next ==
    \/ \E x \in PairInputs : addTradingPair(x[1], x[2], x[3], x[4], x[5]) /\ UNCHANGED guard
    \/ \E x \in LimitInputs : placeLimitOrder(x[1], x[2], x[3], x[4], x[5], x[6])
          /\ UNCHANGED guard
    \/ \E x \in MarketInputs : placeMarketOrder(x[1], x[2], x[3], x[4], x[5]) /\ UNCHANGED guard
    \/ \E c \in Accounts, i \in OrderIds : cancelOrder(c, i) /\ UNCHANGED guard
    \/ \E c \in Accounts, t \in Tokens : \E a \in WithdrawAmounts(c, t) : withdraw(c, t, a)
          /\ UNCHANGED guard

Spec == Init /\ [][Next]_vars

(* -------------------- calls that validation turns down ------------------ *)
\* addTradingPair calls: only (1, 2) is ever registered, with a minimum order size
GatePairInputs ==
    {<<1, 1, 2, 500, 2>>}
\* placeLimitOrder calls: two valid ones, an amount below the minimum, a zero price,
\* both at once, and one on the reversed pair (2, 1)
GateLimitInputs ==
    {<<1, 1, 2, 1000, 2, TRUE>>, <<2, 1, 2, 1000, 2, FALSE>>,
     <<2, 1, 2, 400, 3, FALSE>>, <<1, 1, 2, 1000, 0, TRUE>>,
     <<2, 1, 2, 400, 0, FALSE>>, <<1, 2, 1, 1000, 2, TRUE>>}
\* placeMarketOrder calls: a valid one, an amount below the minimum, one on the
\* reversed pair (2, 1)
GateMarketInputs ==
    {<<1, 1, 2, 1000, TRUE>>, <<2, 1, 2, 400, FALSE>>, <<2, 2, 1, 1000, FALSE>>}

NextGate ==
    \/ \E x \in GatePairInputs : addTradingPair(x[1], x[2], x[3], x[4], x[5]) /\ UNCHANGED guard
    \/ \E x \in GateLimitInputs : placeLimitOrder(x[1], x[2], x[3], x[4], x[5], x[6])
          /\ UNCHANGED guard
    \/ \E x \in GateMarketInputs : placeMarketOrder(x[1], x[2], x[3], x[4], x[5])
          /\ UNCHANGED guard
    \/ \E c \in Accounts, i \in OrderIds : cancelOrder(c, i) /\ UNCHANGED guard

SpecGate == Init /\ [][NextGate]_vars

(* ----------------------- administration of pairs ----------------------- *)
\* addTradingPair calls: (1, 2) with two different parameter sets, (2, 1), a call by
\* a non-owner, identical tokens, a zero base token, a zero quote token
AdminPairInputs ==
    {<<1, 1, 2, 0, 2>>, <<1, 1, 2, 500, 1>>, <<1, 2, 1, 0, 2>>, <<2, 1, 2, 500, 1>>,
     <<1, 1, 1, 0, 2>>, <<1, 0, 2, 0, 2>>, <<1, 1, 0, 0, 2>>}
\* placeLimitOrder calls between the registrations
AdminLimitInputs ==
    {<<1, 1, 2, 1000, 3, TRUE>>, <<2, 1, 2, 1000, 3, FALSE>>, <<2, 2, 1, 1000, 3, TRUE>>}

NextAdmin ==
    \/ \E x \in AdminPairInputs : addTradingPair(x[1], x[2], x[3], x[4], x[5])
          /\ UNCHANGED guard
    \/ \E x \in AdminLimitInputs : placeLimitOrder(x[1], x[2], x[3], x[4], x[5], x[6])
          /\ UNCHANGED guard
    \/ \E c \in Accounts, i \in OrderIds : cancelOrder(c, i) /\ UNCHANGED guard

SpecAdmin == Init /\ [][NextAdmin]_vars

(* ------------------------- books four orders deep ----------------------- *)
\* addTradingPair calls: the owner registers (1, 2)
DeepPairInputs ==
    {<<1, 1, 2, 0, 2>>}
\* placeLimitOrder calls: buys at one price, sells at one price below it, and a sell
\* above every buy
DeepLimitInputs ==
    {<<1, 1, 2, 400, 3, TRUE>>,  <<1, 1, 2, 1000, 3, TRUE>>,
     <<2, 1, 2, 400, 2, FALSE>>, <<2, 1, 2, 1000, 2, FALSE>>,
     <<2, 1, 2, 400, 4, FALSE>>}

\* every slot of the order table may be filled, so that two orders with ids above 0 can
\* rest on one side while a third one arrives on the other
NextDeep ==
    \/ \E x \in DeepPairInputs : addTradingPair(x[1], x[2], x[3], x[4], x[5]) /\ UNCHANGED guard
    \/ \E x \in DeepLimitInputs :
          placeLimitOrderIn(FundedCaller, MaxOrders + 1, x[1], x[2], x[3], x[4], x[5], x[6])
          /\ UNCHANGED guard
    \/ \E c \in Accounts, i \in OrderIds : cancelOrder(c, i) /\ UNCHANGED guard

SpecDeep == Init /\ [][NextDeep]_vars

(* ------------------- tokens that return false on failure --------------- *)
\* the callers hold the tokens or not; the tokens of the pair do not revert a transfer
\* they cannot make, they return false
SilentTokenEnvs == {[funded |-> f, reverts |-> FALSE] : f \in BOOLEAN}
\* addTradingPair calls: the owner registers (1, 2)
TokenPairInputs ==
    {<<1, 1, 2, 0, 2>>}
\* placeLimitOrder calls
TokenLimitInputs ==
    {<<1, 1, 2, 400, 3, TRUE>>, <<2, 1, 2, 400, 3, FALSE>>}
\* placeMarketOrder calls
TokenMarketInputs ==
    {<<1, 1, 2, 400, TRUE>>}

NextToken ==
    \/ \E x \in TokenPairInputs : addTradingPair(x[1], x[2], x[3], x[4], x[5])
          /\ UNCHANGED guard
    \/ \E env \in SilentTokenEnvs, x \in TokenLimitInputs :
          placeLimitOrderIn(env, MaxOrders, x[1], x[2], x[3], x[4], x[5], x[6])
          /\ UNCHANGED guard
    \/ \E env \in SilentTokenEnvs, x \in TokenMarketInputs :
          placeMarketOrderIn(env, x[1], x[2], x[3], x[4], x[5]) /\ UNCHANGED guard
    \/ \E env \in SilentTokenEnvs, c \in Accounts, i \in OrderIds : cancelOrderIn(env, c, i)
          /\ UNCHANGED guard
    \/ \E env \in SilentTokenEnvs, c \in Accounts, t \in Tokens :
          \E a \in WithdrawAmounts(c, t) : withdrawIn(env, c, t, a) /\ UNCHANGED guard

SpecToken == Init /\ [][NextToken]_vars

(* ----------------- calls made from inside a token call ----------------- *)
\* depth of the call stack the model follows
MaxDepth == 2

\* addTradingPair calls: the owner registers (1, 2)
ReentryPairInputs ==
    {<<1, 1, 2, 0, 2>>}

\* a call of one of the four nonReentrant functions, fields it does not use left at 0
Call(op, caller, baseToken, quoteToken, amount, price, isBuy, orderId) ==
    [op |-> op, caller |-> caller, baseToken |-> baseToken, quoteToken |-> quoteToken,
     amount |-> amount, price |-> price, isBuy |-> isBuy, orderId |-> orderId]

\* the calls an account, or a token contract in the middle of a transfer, may make;
\* withdraw(token, amount) carries its token in baseToken
ReentryCalls ==
    {Call("placeLimitOrder", 1, 1, 2, 400, 3, TRUE, 0),
     Call("placeLimitOrder", 2, 1, 2, 400, 3, FALSE, 0),
     Call("placeMarketOrder", 1, 1, 2, 400, 0, TRUE, 0)}
    \cup {Call("cancelOrder", c, 0, 0, 0, 0, FALSE, i) : c \in Accounts, i \in 0 .. 1}
    \cup {Call("withdraw", c, t, 0, 400, 0, FALSE, 0) : c \in Accounts, t \in Tokens}

\* a function enters through nonReentrant and runs up to its external token call, or
\* is turned down by the modifier
Enter(call) ==
    IF ~nonReentrant(entered)
    THEN /\ last' = Reverted(call.op, "ReentrancyGuardReentrantCall")
         /\ UNCHANGED <<chain, counts, history, guard>>
    ELSE /\ Len(suspended) < MaxDepth
         /\ entered' = TRUE
         /\ suspended' = Append(suspended, call)
         /\ UNCHANGED <<chain, counts, history, last>>

\* the body of the function that call started
Body(call) ==
    CASE call.op = "placeLimitOrder" ->
            placeLimitOrder(call.caller, call.baseToken, call.quoteToken, call.amount,
                            call.price, call.isBuy)
      [] call.op = "placeMarketOrder" ->
            placeMarketOrder(call.caller, call.baseToken, call.quoteToken, call.amount,
                             call.isBuy)
      [] call.op = "cancelOrder" -> cancelOrder(call.caller, call.orderId)
      [] call.op = "withdraw" -> withdraw(call.caller, call.baseToken, call.amount)

\* the token call of the innermost call returns: the function finishes (or reverts) and
\* the modifier resets the lock
Return ==
    /\ suspended # <<>>
    /\ Body(suspended[Len(suspended)])
    /\ entered' = FALSE
    /\ suspended' = SubSeq(suspended, 1, Len(suspended) - 1)

NextReentry ==
    \/ \E x \in ReentryPairInputs :
          /\ suspended = <<>>
          /\ addTradingPair(x[1], x[2], x[3], x[4], x[5])
          /\ UNCHANGED guard
    \/ \E call \in ReentryCalls : Enter(call)
    \/ Return

SpecReentry == Init /\ [][NextReentry]_vars

(* ======================================================================= *)
(*                       properties of the contract                        *)
(* ======================================================================= *)

RECURSIVE SumOver(_, _)
\* the sum of f[x] over the finite set S
SumOver(f, S) ==
    IF S = {} THEN 0
    ELSE LET x == CHOOSE y \in S : TRUE IN f[x] + SumOver(f, S \ {x})

\* the recorded balances of one token added up over all accounts
TotalRecorded(token) == SumOver([a \in Accounts |-> balances[a][token]], Accounts)

\* ids that have been assigned to an order
Created == {i \in OrderIds : i < orderIdCounter}

\* this step is a successful placeLimitOrder (the only step that advances the counter)
PlacedStep == orderIdCounter' = orderIdCounter + 1

\* the order table of a PlacedStep right after the new order is stored, before the match
PlacedOrders ==
    [orders EXCEPT ![orderIdCounter] =
        [orders'[orderIdCounter] EXCEPT !.amount = initialAmount'[orderIdCounter],
                                        !.isActive = TRUE]]

\* the order a PlacedStep created, as stored before the match
NewOrder == PlacedOrders[orderIdCounter]

\* active orders of one side of a pair in the order table ords
Side(ords, ids, baseToken, quoteToken, isBuy) ==
    {i \in ids : /\ ords[i].isActive
                 /\ ords[i].baseToken = baseToken
                 /\ ords[i].quoteToken = quoteToken
                 /\ ords[i].isBuy = isBuy}

\* C1: for every token the recorded balances of all accounts add up to at most what the
\* contract holds of that token (transferred in minus transferred out).
C1_Solvency == \A t \in Tokens : TotalRecorded(t) <= held[t]

\* C2: no recorded balance exceeds the account's deposits plus trade proceeds minus trade
\* payments, withdrawals and cancellation refunds.
C2_NoDoubleSpend == \A a \in Accounts, t \in Tokens : balances[a][t] <= entitled[a][t]

\* C3: a successful placeLimitOrder on pair P executes a match exactly when P has an
\* active buy and an active sell (the new order included) whose best prices cross, and
\* the match is between a maximum-price buy and a minimum-price sell, whatever their ids.
C3_MatchingRule ==
    [][PlacedStep =>
        LET ids == 0 .. orderIdCounter
            buys == Side(PlacedOrders, ids, NewOrder.baseToken, NewOrder.quoteToken, TRUE)
            sells == Side(PlacedOrders, ids, NewOrder.baseToken, NewOrder.quoteToken, FALSE)
            bestBuys == {i \in buys : \A j \in buys : PlacedOrders[j].price <= PlacedOrders[i].price}
            bestSells == {i \in sells : \A j \in sells : PlacedOrders[j].price >= PlacedOrders[i].price}
            cross == \E i \in bestBuys, j \in bestSells :
                        PlacedOrders[i].price >= PlacedOrders[j].price
            m == last'.match
        IN  /\ m.matched <=> cross
            /\ m.matched => m.buyOrderId \in bestBuys /\ m.sellOrderId \in bestSells
    ]_vars

\* C4 (Scenario A): when the only order is X's untouched buy of a at p and Y # X places a
\* sell of a at p on the same pair, that placement runs one match with matchAmount = a
\* and matchPrice = p, credits X with a - fee base and Y with (a - fee) * p / precision
\* quote, and leaves both orders inactive.
C4_ScenarioA ==
    [][( /\ PlacedStep
         /\ orderIdCounter = 1
         /\ marketCount = 0 /\ withdrawCount = 0
         /\ orders[0].isActive /\ orders[0].isBuy
         /\ orders[0].amount = initialAmount[0]
         /\ ~NewOrder.isBuy
         /\ NewOrder.trader # orders[0].trader
         /\ NewOrder.baseToken = orders[0].baseToken
         /\ NewOrder.quoteToken = orders[0].quoteToken
         /\ NewOrder.amount = orders[0].amount
         /\ NewOrder.price = orders[0].price )
       =>
        LET a == orders[0].amount
            p == orders[0].price
            fee == (a * TRADING_FEE) \div FEE_DENOMINATOR
            precision == tradingPairs[<<orders[0].baseToken, orders[0].quoteToken>>].pricePrecision
            X == orders[0].trader
            Y == NewOrder.trader
        IN  /\ last'.match.matched
            /\ last'.match.matchAmount = a
            /\ last'.match.matchPrice = p
            /\ balances'[X][orders[0].baseToken] = balances[X][orders[0].baseToken] + (a - fee)
            /\ balances'[Y][orders[0].quoteToken] =
                   balances[Y][orders[0].quoteToken] + ((a - fee) * p) \div precision
            /\ ~orders'[0].isActive
            /\ ~orders'[1].isActive
    ]_vars

\* what the placer's escrow adds to balances[a][t] in a PlacedStep
EscrowCredit(a, t) ==
    IF a = NewOrder.trader
       /\ t = (IF NewOrder.isBuy THEN NewOrder.quoteToken ELSE NewOrder.baseToken)
    THEN held'[t] - held[t]
    ELSE 0

\* C5: every executed limit match between buy order B and sell order S uses
\* matchAmount = min(B.amount, S.amount), matchPrice = floor((B.price + S.price) / 2),
\* tradingFee = floor(matchAmount * 30 / 10000), baseAmount = matchAmount - tradingFee,
\* quoteAmount = floor(baseAmount * matchPrice / pricePrecision), and raises B.trader's
\* base balance by exactly baseAmount and S.trader's quote balance by exactly quoteAmount.
C5_MatchArithmetic ==
    [][(PlacedStep /\ last'.match.matched) =>
        LET m == last'.match
            B == PlacedOrders[m.buyOrderId]
            S == PlacedOrders[m.sellOrderId]
            base == B.baseToken
            quote == B.quoteToken
            precision == tradingPairs[<<base, quote>>].pricePrecision
            matchAmount == IF B.amount <= S.amount THEN B.amount ELSE S.amount
            matchPrice == (B.price + S.price) \div 2
            tradingFee == (matchAmount * 30) \div 10000
            baseAmount == matchAmount - tradingFee
            quoteAmount == (baseAmount * matchPrice) \div precision
        IN  /\ B.isBuy /\ ~S.isBuy
            /\ m.matchAmount = matchAmount
            /\ m.matchPrice = matchPrice
            /\ m.tradingFee = tradingFee
            /\ m.baseAmount = baseAmount
            /\ m.quoteAmount = quoteAmount
            /\ balances'[B.trader][base] =
                   balances[B.trader][base] + EscrowCredit(B.trader, base) + baseAmount
            /\ balances'[S.trader][quote] =
                   balances[S.trader][quote] + EscrowCredit(S.trader, quote) + quoteAmount
    ]_vars

\* C5 witness: a match of a buy priced above the sell, with a fee and a rounded quote leg
C5_Witness ==
    /\ last.op = "placeLimitOrder"
    /\ last.match.matched
    /\ last.match.tradingFee > 0
    /\ orders[last.match.buyOrderId].price > orders[last.match.sellOrderId].price
    /\ 2 * last.match.matchPrice #
           orders[last.match.buyOrderId].price + orders[last.match.sellOrderId].price
    /\ balances[orders[last.match.buyOrderId].trader][orders[last.match.buyOrderId].baseToken]
           = last.match.baseAmount

\* C6: an order's amount never exceeds its amount at creation, never increases from one
\* state to the next, and an order whose amount is 0 is inactive.
C6_AmountMonotone ==
    [][\A i \in OrderIds :
          i < orderIdCounter' =>
             /\ orders'[i].amount <= initialAmount'[i]
             /\ (i < orderIdCounter => orders'[i].amount <= orders[i].amount)
             /\ (orders'[i].amount = 0 => ~orders'[i].isActive)
    ]_vars

\* C7: an inactive order is never selected by a later limit match or market-order walk,
\* its amount never changes again and its isActive flag never returns to true.
C7_NoDoubleMatch ==
    [][\A i \in Created :
          ~orders[i].isActive =>
             /\ orders'[i] = orders[i]
             /\ (PlacedStep /\ last'.match.matched =>
                    i \notin {last'.match.buyOrderId, last'.match.sellOrderId})
             /\ (marketCount' # marketCount => i \notin last'.consumed)
    ]_vars

\* C7 witness: a sell was placed at a price a cancelled buy of the same pair would have
\* crossed, and the placement ran no match
C7_Witness ==
    /\ last.op = "placeLimitOrder" /\ last.result = "ok"
    /\ ~last.match.matched
    /\ \E i \in Created :
          /\ 0 < i /\ i < last.orderId
          /\ refunds[i] # <<>> /\ orders[i].amount > 0 /\ orders[i].isBuy
          /\ ~orders[last.orderId].isBuy /\ orders[last.orderId].isActive
          /\ orders[last.orderId].baseToken = orders[i].baseToken
          /\ orders[last.orderId].quoteToken = orders[i].quoteToken
          /\ orders[last.orderId].price <= orders[i].price

\* C8: once cancelOrder(id) has succeeded, every later cancelOrder(id) by the owner fails
\* with the order-already-inactive error and changes no state, and what cancelOrder has
\* paid out for id in total is the remaining escrow at the first cancellation: the
\* remaining amount of a sell, remaining amount * price / pricePrecision of a buy.
C8_CancelOnce ==
    [][\A id \in OrderIds :
          /\ (refunds[id] # <<>> /\ cancelOrder(orders[id].trader, id)) =>
                /\ last'.result = "Order already cancelled"
                /\ UNCHANGED <<chain, history>>
          /\ refunds[id] # <<>> => refunds'[id] = refunds[id]
          /\ (refunds[id] = <<>> /\ refunds'[id] # <<>>) =>
                LET o == orders[id]
                    precision == tradingPairs[<<o.baseToken, o.quoteToken>>].pricePrecision
                    token == IF o.isBuy THEN o.quoteToken ELSE o.baseToken
                    escrow == IF o.isBuy THEN (o.amount * o.price) \div precision ELSE o.amount
                IN  /\ refunds'[id] = <<escrow>>
                    /\ held'[token] = held[token] - escrow
                    /\ ~orders'[id].isActive
    ]_vars

\* C8 witness: the owner's second cancelOrder of an order whose cancellation paid out was
\* turned down
C8_Witness ==
    /\ last.op = "cancelOrder"
    /\ last.result = "Order already cancelled"
    /\ refunds[last.orderId] # <<>>
    /\ refunds[last.orderId][1] > 0

\* C9 (Scenario E): cancelOrder(id) by an account that is not the order's trader fails
\* with the not-owner error and leaves the order and every balance unchanged, whether
\* or not the order is active.
C9_CancelNotOwner ==
    [][\A c \in Accounts, id \in OrderIds :
          (c # orders[id].trader /\ cancelOrder(c, id)) =>
             /\ last'.result = "Not your order"
             /\ UNCHANGED <<chain, history>>
    ]_vars

\* C9 witness: a cancelOrder on somebody else's active order was turned down
C9_Witness ==
    /\ last.op = "cancelOrder"
    /\ last.result = "Not your order"
    /\ last.orderId \in Created
    /\ orders[last.orderId].isActive
    /\ orders[last.orderId].amount > 0

\* C10: withdraw(token, amount) with amount above the caller's recorded balance fails
\* with InsufficientBalance and changes no state; otherwise it lowers that balance by
\* exactly amount, transfers exactly amount out and changes no other balance and no order.
C10_Withdraw ==
    [][\A c \in Accounts, t \in Tokens :
          \A a \in WithdrawAmounts(c, t) :
             withdraw(c, t, a) =>
                IF a > balances[c][t]
                THEN /\ last'.result = "Insufficient balance"
                     /\ UNCHANGED <<chain, history>>
                ELSE /\ last'.result = "ok"
                     /\ balances' = [balances EXCEPT ![c][t] = @ - a]
                     /\ held' = [held EXCEPT ![t] = @ - a]
                     /\ UNCHANGED <<orderIdCounter, orders, tradingPairs, userOrders>>
    ]_vars

\* what the match of a PlacedStep adds to balances[a][t]
MatchCredit(a, t) ==
    LET m == last'.match
        B == PlacedOrders[m.buyOrderId]
        S == PlacedOrders[m.sellOrderId]
    IN  IF ~m.matched THEN 0
        ELSE (IF a = B.trader /\ t = B.baseToken THEN m.baseAmount ELSE 0)
             + (IF a = S.trader /\ t = B.quoteToken THEN m.quoteAmount ELSE 0)

\* C11: every recorded balance changes only by the credits and debits of the operations:
\* the placer's escrow and the two match credits of a successful placeLimitOrder, the
\* taker's credit of a successful market order, the refund of a successful cancelOrder
\* and the amount of a successful withdraw; addTradingPair and every failed call leave
\* all balances alone, no balance is ever negative, and a cancelOrder or withdraw
\* succeeds only when its debit is within the caller's balance.
C11_BalanceConservation ==
    [][/\ \A a \in Accounts, t \in Tokens : balances'[a][t] >= 0
       /\ (last'.result # "ok" \/ last'.op = "addTradingPair") => balances' = balances
       /\ PlacedStep =>
             \A a \in Accounts, t \in Tokens :
                balances'[a][t] = balances[a][t] + EscrowCredit(a, t) + MatchCredit(a, t)
       /\ (last'.op = "placeMarketOrder" /\ last'.result = "ok") =>
             \A x \in MarketInputs :
                placeMarketOrder(x[1], x[2], x[3], x[4], x[5]) =>
                   LET out == IF x[5] THEN x[2] ELSE x[3]
                   IN  /\ balances'[x[1]][out] >= balances[x[1]][out]
                       /\ \A a \in Accounts, t \in Tokens :
                             (a # x[1] \/ t # out) => balances'[a][t] = balances[a][t]
       /\ (last'.op = "cancelOrder" /\ last'.result = "ok") =>
             LET id == last'.orderId
                 o == orders[id]
                 c == o.trader
                 precision == tradingPairs[<<o.baseToken, o.quoteToken>>].pricePrecision
                 token == IF o.isBuy THEN o.quoteToken ELSE o.baseToken
                 debit == IF o.isBuy THEN (o.amount * o.price) \div precision ELSE o.amount
             IN  /\ cancelOrder(c, id)
                 /\ debit <= balances[c][token]
                 /\ balances' = [balances EXCEPT ![c][token] = @ - debit]
       /\ (last'.op = "withdraw" /\ last'.result = "ok") =>
             \A c \in Accounts, t \in Tokens :
                \A a \in WithdrawAmounts(c, t) :
                   withdraw(c, t, a) =>
                      /\ a <= balances[c][t]
                      /\ balances' = [balances EXCEPT ![c][t] = @ - a]
    ]_vars

\* C11 witness: the owner of an active order withdrew its escrow and the cancellation,
\* whose refund exceeds the recorded balance, was turned down
C11_Witness ==
    /\ last.op = "cancelOrder"
    /\ last.result = "Panic(0x11)"
    /\ orders[last.orderId].isActive
    /\ withdrawCount > 0

Min(a, b) == IF a < b THEN a ELSE b

Max(a, b) == IF a > b THEN a ELSE b

\* the amounts of the orders as a function of the id
Amounts == [i \in OrderIds |-> orders[i].amount]

\* the active orders a market order on (baseToken, quoteToken) can be filled against:
\* the sells of the pair for a market buy, its buys for a market sell
Resting(baseToken, quoteToken, isBuy) == Side(orders, Created, baseToken, quoteToken, ~isBuy)

\* the quantity a market order of amount q takes from order i of the book S when the
\* orders ranked before i (the set ahead) are filled first
FillAfter(i, ahead, q) == Min(orders[i].amount, Max(0, q - SumOver(Amounts, ahead)))

\* fills in ascending id order
IdFill(i, S, q) == FillAfter(i, {j \in S : j < i}, q)

\* fills in best-price order: cheapest sell first for a market buy, dearest buy first
\* for a market sell, equal prices in id order
PriceFill(i, S, q, isBuy) ==
    FillAfter(i, {j \in S : \/ (isBuy /\ orders[j].price < orders[i].price)
                            \/ (~isBuy /\ orders[j].price > orders[i].price)
                            \/ (orders[j].price = orders[i].price /\ j < i)}, q)

\* this step is a successful placeMarketOrder
MarketStep == last'.op = "placeMarketOrder" /\ last'.result = "ok"

\* C12: a successful placeMarketOrder of amount q lowers the amounts of the resting
\* orders of the opposite side by q in total, raises none, leaves no order of that side
\* active at amount 0, and credits the owner of every order it lowered with proceeds
\* (quote for a resting sell, base for a resting buy).
C12_MarketSettlesResting ==
    [][MarketStep =>
          \A x \in MarketInputs :
             placeMarketOrder(x[1], x[2], x[3], x[4], x[5]) =>
                LET S == Resting(x[2], x[3], x[5])
                    proceeds == IF x[5] THEN x[3] ELSE x[2]
                IN  /\ \A i \in S : /\ orders'[i].amount <= orders[i].amount
                                    /\ orders'[i].amount = 0 => ~orders'[i].isActive
                    /\ SumOver([i \in OrderIds |-> orders[i].amount - orders'[i].amount], S)
                          = x[4]
                    /\ \A i \in S :
                          orders'[i].amount < orders[i].amount =>
                             balances'[orders[i].trader][proceeds]
                                > balances[orders[i].trader][proceeds]
    ]_vars

\* C13: the base quantity filled against an order by limit matches and market orders
\* together never exceeds the order's amount at creation.
C13_NoDoubleCount == \A i \in Created : filled[i] <= initialAmount[i]

C15_BestPrice ==
    [][MarketStep =>
          \A x \in MarketInputs :
             placeMarketOrder(x[1], x[2], x[3], x[4], x[5]) =>
                LET S == Resting(x[2], x[3], x[5])
                    precision == tradingPairs[<<x[2], x[3]>>].pricePrecision
                    best == SumOver([i \in OrderIds |->
                               (PriceFill(i, S, x[4], x[5]) * orders[i].price) \div precision], S)
                IN  IF x[5]
                    THEN held'[x[3]] - held[x[3]] = best
                    ELSE balances'[x[1]][x[3]] - balances[x[1]][x[3]] = best
    ]_vars

\* C16: a successful market buy of amount a transfers in exactly the sum over the sell
\* orders it walks (ascending id) of floor(matchAmount * price / pricePrecision) of quote
\* and credits the taker's base balance with a; a successful market sell transfers in
\* exactly a of base and credits the taker's quote balance with the sum computed the same
\* way over the buy orders; no order record is created and no order-id list changes.
C16_TakerSettlement ==
    [][MarketStep =>
          \A x \in MarketInputs :
             placeMarketOrder(x[1], x[2], x[3], x[4], x[5]) =>
                LET S == Resting(x[2], x[3], x[5])
                    precision == tradingPairs[<<x[2], x[3]>>].pricePrecision
                    total == SumOver([i \in OrderIds |->
                               (IdFill(i, S, x[4]) * orders[i].price) \div precision], S)
                IN  /\ IF x[5]
                       THEN /\ held' = [held EXCEPT ![x[3]] = @ + total]
                            /\ balances' = [balances EXCEPT ![x[1]][x[2]] = @ + x[4]]
                       ELSE /\ held' = [held EXCEPT ![x[2]] = @ + x[4]]
                            /\ balances' = [balances EXCEPT ![x[1]][x[3]] = @ + total]
                    /\ orderIdCounter' = orderIdCounter
                    /\ userOrders' = userOrders
                    /\ \A i \in OrderIds : i >= orderIdCounter => orders'[i] = ZeroOrder
    ]_vars

\* C16 witness: a market sell was filled against two resting buys of different prices
C16_Witness ==
    /\ last.op = "placeMarketOrder"
    /\ last.result = "ok"
    /\ \E i, j \in last.consumed : orders[i].price # orders[j].price
    /\ last.total > 0

\* C17: the buyer of every executed trade is credited the traded quantity minus
\* floor(quantity * 30 / 10000) of base: the buyer of a limit match, the taker of a
\* market buy (per sell order it is filled against) and the owner of every buy order a
\* market sell is filled against.
C17_FeeOnEveryTrade ==
    [][/\ (PlacedStep /\ last'.match.matched) =>
             LET m == last'.match
                 B == PlacedOrders[m.buyOrderId]
             IN  balances'[B.trader][B.baseToken] =
                    balances[B.trader][B.baseToken] + EscrowCredit(B.trader, B.baseToken)
                       + (m.matchAmount - (m.matchAmount * 30) \div 10000)
       /\ MarketStep =>
             \A x \in MarketInputs :
                placeMarketOrder(x[1], x[2], x[3], x[4], x[5]) =>
                   LET S == Resting(x[2], x[3], x[5])
                       net == [i \in OrderIds |->
                                 IdFill(i, S, x[4]) - (IdFill(i, S, x[4]) * 30) \div 10000]
                   IN  IF x[5]
                       THEN balances'[x[1]][x[2]] = balances[x[1]][x[2]] + SumOver(net, S)
                       ELSE \A b \in Accounts :
                               balances'[b][x[2]] = balances[b][x[2]]
                                  + SumOver(net, {i \in S : orders[i].trader = b})
    ]_vars

\* C20: a successful placeLimitOrder transfers in exactly floor(amount * price /
\* pricePrecision) of the quote token for a buy and exactly amount of the base token for
\* a sell, transfers nothing else, and credits the caller's recorded balance of that
\* token with the same amount (on top of which only a match of that placement credits).
C20_LimitEscrow ==
    [][PlacedStep =>
          \A x \in LimitInputs :
             placeLimitOrder(x[1], x[2], x[3], x[4], x[5], x[6]) =>
                LET precision == tradingPairs[<<x[2], x[3]>>].pricePrecision
                    token == IF x[6] THEN x[3] ELSE x[2]
                    escrow == IF x[6] THEN (x[4] * x[5]) \div precision ELSE x[4]
                IN  /\ held' = [held EXCEPT ![token] = @ + escrow]
                    /\ balances'[x[1]][token] =
                          balances[x[1]][token] + escrow + MatchCredit(x[1], token)
                    /\ NewOrder.amount = x[4] /\ NewOrder.price = x[5]
    ]_vars

\* C20 witness: a buy whose escrow differs from its amount was placed and its escrow is
\* held and recorded
C20_Witness ==
    /\ last.op = "placeLimitOrder" /\ last.result = "ok"
    /\ ~last.match.matched
    /\ orders[last.orderId].isBuy
    /\ orders[last.orderId].amount = 400
    /\ orders[last.orderId].price = 3
    /\ held[orders[last.orderId].quoteToken] >= 600
    /\ balances[orders[last.orderId].trader][orders[last.orderId].quoteToken] >= 600

\* C18: placeLimitOrder and placeMarketOrder on a (baseToken, quoteToken) that is not
\* registered in exactly that order fail with "Trading pair not active" and leave
\* balances, orders, the order-id counter, the order-id lists and the token holdings
\* unchanged.
C18_PairGate ==
    [][/\ last'.op = "placeLimitOrder" =>
             \A x \in GateLimitInputs :
                (/\ ~tradingPairs[<<x[2], x[3]>>].isActive
                 /\ placeLimitOrder(x[1], x[2], x[3], x[4], x[5], x[6])) =>
                   /\ last'.result = "Trading pair not active"
                   /\ UNCHANGED <<chain, history>>
       /\ last'.op = "placeMarketOrder" =>
             \A x \in GateMarketInputs :
                (/\ ~tradingPairs[<<x[2], x[3]>>].isActive
                 /\ placeMarketOrder(x[1], x[2], x[3], x[4], x[5])) =>
                   /\ last'.result = "Trading pair not active"
                   /\ UNCHANGED <<chain, history>>
    ]_vars

\* C18 witness: an order on the reversed pair (2, 1) was turned down while (1, 2) was
\* registered and had an active order
C18_Witness ==
    /\ last.result = "Trading pair not active"
    /\ tradingPairs[<<1, 2>>].isActive
    /\ ~tradingPairs[<<2, 1>>].isActive
    /\ \E i \in Created : orders[i].isActive /\ orders[i].amount > 0

\* C19: on an active pair, placeLimitOrder and placeMarketOrder with amount below the
\* pair's minOrderSize fail with "Order size too small", and placeLimitOrder with an
\* admissible amount and price 0 fails with "Invalid price"; each failure leaves the
\* whole contract state unchanged.
C19_Validation ==
    [][/\ last'.op = "placeLimitOrder" =>
             \A x \in GateLimitInputs :
                LET pair == tradingPairs[<<x[2], x[3]>>]
                IN  (pair.isActive /\ placeLimitOrder(x[1], x[2], x[3], x[4], x[5], x[6])) =>
                       /\ x[4] < pair.minOrderSize =>
                             /\ last'.result = "Order size too small"
                             /\ UNCHANGED <<chain, history>>
                       /\ (x[4] >= pair.minOrderSize /\ x[5] = 0) =>
                             /\ last'.result = "Invalid price"
                             /\ UNCHANGED <<chain, history>>
       /\ last'.op = "placeMarketOrder" =>
             \A x \in GateMarketInputs :
                LET pair == tradingPairs[<<x[2], x[3]>>]
                IN  (/\ pair.isActive /\ x[4] < pair.minOrderSize
                     /\ placeMarketOrder(x[1], x[2], x[3], x[4], x[5])) =>
                       /\ last'.result = "Order size too small"
                       /\ UNCHANGED <<chain, history>>
    ]_vars

\* C19 witness: a market order below the minimum size was turned down although the
\* book held an active buy it could have been filled against
C19_Witness ==
    /\ last.op = "placeMarketOrder"
    /\ last.result = "Order size too small"
    /\ \E i \in Created : orders[i].isActive /\ orders[i].isBuy /\ orders[i].amount >= 400

\* this step is a successful placeLimitOrder, told by its outcome
PlacedOk == last'.op = "placeLimitOrder" /\ last'.result = "ok"

\* C21: a successful placeLimitOrder returns the current counter value as id, advances
\* the counter by one, stores under that id an order with that id and the caller as
\* trader, active unless the match of the same call filled it, and appends the id to the
\* caller's order list and to no other; every other step (failed calls, market orders,
\* cancellations, withdrawals) leaves the counter and the lists alone; the id and trader
\* of an existing order never change, and no id occurs twice in the order lists.
C21_OrderIds ==
    [][/\ PlacedOk =>
             /\ orderIdCounter' = orderIdCounter + 1
             /\ last'.orderId = orderIdCounter
             /\ \A x \in LimitInputs :
                   placeLimitOrder(x[1], x[2], x[3], x[4], x[5], x[6]) =>
                      LET o == orders'[orderIdCounter]
                      IN  /\ o.id = orderIdCounter
                          /\ o.trader = x[1]
                          /\ o.isActive \/ (last'.match.matched /\ o.amount = 0)
                          /\ userOrders' =
                                [userOrders EXCEPT ![x[1]] = Append(@, orderIdCounter)]
       /\ ~PlacedOk => (orderIdCounter' = orderIdCounter /\ userOrders' = userOrders)
       /\ \A i \in Created : orders'[i].id = i /\ orders'[i].trader = orders[i].trader
       /\ \A a, b \in Accounts :
             \A k \in DOMAIN userOrders'[a], l \in DOMAIN userOrders'[b] :
                userOrders'[a][k] = userOrders'[b][l] => (a = b /\ k = l)
    ]_vars

\* C21 witness: the third order got id 2 after an earlier order was cancelled and a
\* market order was filled
C21_Witness ==
    /\ last.op = "placeLimitOrder" /\ last.result = "ok"
    /\ last.orderId = 2
    /\ orders[2].id = 2
    /\ marketCount = 1
    /\ \E i \in {0, 1} : refunds[i] # <<>>
    /\ \E a \in Accounts : Len(userOrders[a]) >= 2

\* C23: after every successful placeLimitOrder, in no pair is there an active buy order
\* priced strictly above an active sell order of the same pair.
C23_NoCross ==
    [][PlacedOk =>
          \A i, j \in 0 .. orderIdCounter :
             (/\ orders'[i].isActive /\ orders'[i].isBuy
              /\ orders'[j].isActive /\ ~orders'[j].isBuy
              /\ orders'[i].baseToken = orders'[j].baseToken
              /\ orders'[i].quoteToken = orders'[j].quoteToken) =>
                orders'[i].price <= orders'[j].price
    ]_vars

\* C24: the two orders of every executed match have the same (baseToken, quoteToken),
\* that of the order just placed, and a successful placeLimitOrder or placeMarketOrder
\* on a pair changes neither amount nor isActive of an order of any other pair.
C24_PairIsolation ==
    [][/\ (PlacedOk /\ last'.match.matched) =>
             LET B == PlacedOrders[last'.match.buyOrderId]
                 S == PlacedOrders[last'.match.sellOrderId]
             IN  /\ B.baseToken = S.baseToken /\ B.quoteToken = S.quoteToken
                 /\ B.baseToken = NewOrder.baseToken /\ B.quoteToken = NewOrder.quoteToken
       /\ PlacedOk =>
             \A i \in Created :
                (orders[i].baseToken # NewOrder.baseToken
                 \/ orders[i].quoteToken # NewOrder.quoteToken) =>
                   /\ orders'[i].amount = orders[i].amount
                   /\ orders'[i].isActive = orders[i].isActive
       /\ MarketStep =>
             \A x \in MarketInputs :
                placeMarketOrder(x[1], x[2], x[3], x[4], x[5]) =>
                   \A i \in Created :
                      (orders[i].baseToken # x[2] \/ orders[i].quoteToken # x[3]) =>
                         /\ orders'[i].amount = orders[i].amount
                         /\ orders'[i].isActive = orders[i].isActive
    ]_vars

\* C24 witness: a match ran on one pair while an active buy of the reversed pair, placed
\* before the matched sell and priced to cross it, was left alone
C24_Witness ==
    /\ last.op = "placeLimitOrder" /\ last.result = "ok"
    /\ last.match.matched
    /\ \E i \in Created :
          /\ orders[i].isActive /\ orders[i].isBuy
          /\ orders[i].amount = initialAmount[i]
          /\ orders[i].baseToken = orders[last.match.sellOrderId].quoteToken
          /\ orders[i].quoteToken = orders[last.match.sellOrderId].baseToken
          /\ orders[i].price >= orders[last.match.sellOrderId].price

\* C22: addTradingPair by a caller other than the owner fails, by the owner with
\* identical tokens fails with "Tokens must be different" and with a zero address with
\* "Invalid token addresses", each leaving the registry and everything else unchanged;
\* any other call by the owner succeeds and sets exactly the entry of (baseToken,
\* quoteToken) to active with the given minOrderSize and pricePrecision.
C22_AddTradingPair ==
    [][last'.op = "addTradingPair" =>
          \A x \in AdminPairInputs :
             addTradingPair(x[1], x[2], x[3], x[4], x[5]) =>
                IF x[1] # owner
                THEN /\ last'.result \notin {"ok", "Tokens must be different",
                                             "Invalid token addresses"}
                     /\ UNCHANGED <<chain, history>>
                ELSE IF x[2] = x[3]
                THEN /\ last'.result = "Tokens must be different"
                     /\ UNCHANGED <<chain, history>>
                ELSE IF x[2] = ZeroAddress \/ x[3] = ZeroAddress
                THEN /\ last'.result = "Invalid token addresses"
                     /\ UNCHANGED <<chain, history>>
                ELSE /\ last'.result = "ok"
                     /\ tradingPairs'[<<x[2], x[3]>>] =
                           [baseToken |-> x[2], quoteToken |-> x[3], isActive |-> TRUE,
                            minOrderSize |-> x[4], pricePrecision |-> x[5]]
                     /\ \A p \in Tokens \X Tokens :
                           p # <<x[2], x[3]>> => tradingPairs'[p] = tradingPairs[p]
                     /\ UNCHANGED <<orderIdCounter, orders, userOrders, balances, held>>
    ]_vars

\* C22 witness: a non-owner's addTradingPair was turned down on a pair whose registered
\* parameters differ from the ones it asked for, with orders in the book
C22_Witness ==
    /\ last.op = "addTradingPair"
    /\ last.result = "OwnableUnauthorizedAccount"
    /\ tradingPairs[<<1, 2>>].isActive
    /\ tradingPairs[<<1, 2>>].pricePrecision = 2
    /\ tradingPairs[<<2, 1>>].isActive
    /\ orderIdCounter > 0

\* position of id i among the ids of S in ascending order
Rank(i, S) == Cardinality({j \in S : j <= i})

\* C25: for every ordered pair, getOrderBook returns in buyPrices and buyAmounts the
\* price and amount of exactly the active buy orders of that pair, in ascending id
\* order, and in sellPrices and sellAmounts those of exactly its active sell orders;
\* the two arrays of a side have the same length.
C25_OrderBook ==
    \A b, q \in Tokens :
       LET book == getOrderBook(b, q)
           buys == Side(orders, Created, b, q, TRUE)
           sells == Side(orders, Created, b, q, FALSE)
       IN  /\ Len(book.buyPrices) = Cardinality(buys)
           /\ Len(book.buyAmounts) = Cardinality(buys)
           /\ Len(book.sellPrices) = Cardinality(sells)
           /\ Len(book.sellAmounts) = Cardinality(sells)
           /\ \A i \in buys : /\ book.buyPrices[Rank(i, buys)] = orders[i].price
                              /\ book.buyAmounts[Rank(i, buys)] = orders[i].amount
           /\ \A i \in sells : /\ book.sellPrices[Rank(i, sells)] = orders[i].price
                               /\ book.sellAmounts[Rank(i, sells)] = orders[i].amount

\* C25 witness: pair (1, 2) has an active buy and an active sell, and a cancelled order
\* with a smaller id than one of them
C25_Witness ==
    \E i, j, k \in Created :
       /\ orders[i].isActive /\ orders[i].isBuy /\ orders[i].amount > 0
       /\ orders[j].isActive /\ ~orders[j].isBuy /\ orders[j].amount > 0
       /\ orders[i].baseToken = 1 /\ orders[j].baseToken = 1 /\ orders[k].baseToken = 1
       /\ ~orders[k].isActive /\ refunds[k] # <<>>
       /\ k < i
       /\ Len(getOrderBook(1, 2).buyPrices) = 1
       /\ Len(getOrderBook(1, 2).sellPrices) = 1

\* C26: getUserOrders(account) holds exactly the ids of the account's active orders,
\* each once and in placement order, and holds no id of an order that was cancelled or
\* that has been filled for its whole amount.
C26_UserOrders ==
    \A a \in Accounts :
       LET ids == getUserOrders(a)
       IN  /\ {ids[k] : k \in DOMAIN ids} =
                 {i \in Created : orders[i].trader = a /\ orders[i].isActive}
           /\ \A k, l \in DOMAIN ids : k < l => ids[k] < ids[l]
           /\ \A i \in Created :
                 (/\ orders[i].trader = a
                  /\ \/ refunds[i] # <<>>
                     \/ (initialAmount[i] > 0 /\ filled[i] >= initialAmount[i])) =>
                    i \notin {ids[k] : k \in DOMAIN ids}

\* C27: cancelOrder with an id that was never assigned fails with an error that is
\* neither the not-owner error nor the already-inactive error, and changes no state.
C27_UnknownOrder ==
    [][last'.op = "cancelOrder" =>
          \A c \in Accounts, id \in OrderIds :
             (id >= orderIdCounter /\ cancelOrder(c, id)) =>
                /\ last'.result \notin {"ok", "Not your order", "Order already cancelled"}
                /\ UNCHANGED <<chain, history>>
    ]_vars

\* the escrow an active order still holds for its trader, by token
OpenEscrow(a, t) ==
    SumOver([i \in OrderIds |->
                IF orders[i].isBuy
                THEN (orders[i].amount * orders[i].price)
                        \div tradingPairs[<<orders[i].baseToken, orders[i].quoteToken>>].pricePrecision
                ELSE orders[i].amount],
            {i \in Created : /\ orders[i].isActive
                             /\ orders[i].trader = a
                             /\ t = (IF orders[i].isBuy THEN orders[i].quoteToken
                                                        ELSE orders[i].baseToken)})

\* C28: every recorded balance is at least the escrow the account's active orders
\* still hold in that token, and cancelOrder by the owner of an active order succeeds.
C28_EscrowBacking ==
    [][/\ \A a \in Accounts, t \in Tokens : balances'[a][t] >= OpenEscrow(a, t)'
       /\ last'.op = "cancelOrder" =>
             \A id \in Created :
                (orders[id].isActive /\ cancelOrder(orders[id].trader, id)) =>
                   last'.result = "ok"
    ]_vars

\* C29: the base-token balances of all accounts together rise, by an executed match,
\* by exactly matchAmount: the buyer's baseAmount plus the fee.
C29_FeeAccounted ==
    [][(PlacedOk /\ last'.match.matched) =>
          LET base == NewOrder.baseToken
          IN  SumOver([a \in Accounts |->
                         balances'[a][base] - balances[a][base] - EscrowCredit(a, base)],
                      Accounts)
                 = last'.match.matchAmount
    ]_vars

\* C30: once an ordered pair is registered, its minOrderSize and pricePrecision never
\* change.
C30_PairImmutable ==
    [][\A p \in Tokens \X Tokens :
          tradingPairs[p].isActive =>
             /\ tradingPairs'[p].minOrderSize = tradingPairs[p].minOrderSize
             /\ tradingPairs'[p].pricePrecision = tradingPairs[p].pricePrecision
    ]_vars

\* this step is a successful cancelOrder
CancelStep == last'.op = "cancelOrder" /\ last'.result = "ok"

\* C31: for a buy order that has never been matched, the quote amount cancelOrder refunds
\* is exactly the quote amount placeLimitOrder escrowed for it, whatever happened between
\* placement and cancellation (addTradingPair calls on the same pair included).
C31_CancelRefund ==
    [][CancelStep =>
          LET id == last'.orderId
          IN  (orders[id].isBuy /\ filled[id] = 0) => refunds'[id] = <<escrowed[id]>>
    ]_vars

\* everything cancelOrder has transferred out for order id
Refunded(id) == SumOver(refunds[id], DOMAIN refunds[id])

\* C38: for every buy order, the quote credited to sellers by all matches against it plus
\* the quote refunded by its cancellation never exceeds the quote escrowed at placement.
C38_EscrowCovers ==
    \A id \in Created : orders[id].isBuy => paid[id] + Refunded(id) <= escrowed[id]

\* C40: a successful cancelOrder(id) changes only that order's isActive flag and the
\* caller's recorded balance of the order's escrow token (quote for a buy, base for a
\* sell); the order's amount, every other order, every other balance and the order-id
\* counter stay as they were and no match runs.
C40_CancelFrame ==
    [][CancelStep =>
          LET id == last'.orderId
              o == orders[id]
              token == IF o.isBuy THEN o.quoteToken ELSE o.baseToken
          IN  /\ orders'[id] = [o EXCEPT !.isActive = FALSE]
              /\ orders'[id].amount = o.amount
              /\ \A i \in OrderIds \ {id} : orders'[i] = orders[i]
              /\ \A a \in Accounts, t \in Tokens :
                    (a # o.trader \/ t # token) => balances'[a][t] = balances[a][t]
              /\ orderIdCounter' = orderIdCounter
              /\ ~last'.match.matched
              /\ filled' = filled /\ paid' = paid
    ]_vars

\* C40 witness: an order with a remaining amount was cancelled and paid out while another
\* order was open and its owner held a recorded balance
C40_Witness ==
    /\ last.op = "cancelOrder" /\ last.result = "ok"
    /\ orders[last.orderId].amount > 0
    /\ refunds[last.orderId] # <<>> /\ refunds[last.orderId][1] > 0
    /\ \E i \in Created \ {last.orderId} :
          /\ orders[i].isActive
          /\ orders[i].trader # orders[last.orderId].trader
          /\ \E t \in Tokens : balances[orders[i].trader][t] > 0

\* the fields of an order that identify it
Identity(o) == <<o.id, o.trader, o.baseToken, o.quoteToken, o.price, o.isBuy>>

\* C36: an order, once created, is never removed from the store and its id, trader,
\* baseToken, quoteToken, price and isBuy never change; its amount and isActive change
\* only when a match runs on it or when its owner cancels it.
C36_OrderIdentity ==
    [][/\ orderIdCounter' >= orderIdCounter
       /\ \A i \in Created :
             /\ Identity(orders'[i]) = Identity(orders[i])
             /\ orders'[i].id = i
             /\ orders'[i] # orders[i] =>
                   \/ /\ PlacedOk
                      /\ last'.match.matched
                      /\ i \in {last'.match.buyOrderId, last'.match.sellOrderId}
                   \/ /\ CancelStep
                      /\ last'.orderId = i
                      /\ cancelOrder(orders[i].trader, i)
    ]_vars

\* C36 witness: an order that a match had partly filled was then cancelled by its owner
C36_Witness ==
    /\ last.op = "cancelOrder" /\ last.result = "ok"
    /\ 0 < orders[last.orderId].amount
    /\ orders[last.orderId].amount < initialAmount[last.orderId]
    /\ ~orders[last.orderId].isActive
    /\ Identity(orders[last.orderId]) # Identity(ZeroOrder)

\* this step is a successful placeLimitOrder that executed a match
MatchStep == PlacedOk /\ last'.match.matched

\* the smallest element of a non-empty set of ids
MinId(S) == CHOOSE i \in S : \A j \in S : i <= j

\* the orders of one side of the new order's pair that were active when the match of
\* this MatchStep was chosen
SideAtMatch(isBuy) ==
    Side(PlacedOrders, 0 .. orderIdCounter, NewOrder.baseToken, NewOrder.quoteToken, isBuy)

\* C33: when several active buy orders of the pair share the maximum price the match uses
\* the one with the smallest id, and when several active sell orders share the minimum
\* price the match uses the one with the smallest id.
C33_TieBreak ==
    [][MatchStep =>
          LET buys == SideAtMatch(TRUE)
              sells == SideAtMatch(FALSE)
              topBuys == {i \in buys : \A j \in buys : PlacedOrders[i].price >= PlacedOrders[j].price}
              topSells == {i \in sells : \A j \in sells : PlacedOrders[i].price <= PlacedOrders[j].price}
          IN  /\ topBuys # {} /\ topSells # {}
              /\ last'.match.buyOrderId = MinId(topBuys)
              /\ last'.match.sellOrderId = MinId(topSells)
    ]_vars

\* C33 witness: a match used buy order b although a later buy order of the same pair and
\* price was active too
C33_Witness ==
    /\ last.op = "placeLimitOrder" /\ last.result = "ok" /\ last.match.matched
    /\ \E j \in Created :
          /\ j > last.match.buyOrderId
          /\ j # last.orderId
          /\ orders[j].isBuy /\ orders[j].isActive
          /\ orders[j].baseToken = orders[last.match.buyOrderId].baseToken
          /\ orders[j].quoteToken = orders[last.match.buyOrderId].quoteToken
          /\ orders[j].price = orders[last.match.buyOrderId].price

\* active orders of the opposite side of the new order's pair whose price crosses the new
\* order's price: sells at or below a new buy, buys at or above a new sell
CrossingNew ==
    {i \in SideAtMatch(~NewOrder.isBuy) :
        IF NewOrder.isBuy THEN orders[i].price <= NewOrder.price
                          ELSE orders[i].price >= NewOrder.price}

\* C34 (Scenario B): when placeLimitOrder succeeds and no active opposite-side order of
\* the pair crosses the new order's price, the new order stays active with its full
\* amount, no existing order changes, and no balance changes except the placer's escrow
\* credit.
C34_ScenarioB ==
    [][(PlacedOk /\ CrossingNew = {}) =>
          /\ orders'[orderIdCounter] = NewOrder
          /\ orders'[orderIdCounter].isActive
          /\ \A i \in Created : orders'[i] = orders[i]
          /\ \A a \in Accounts, t \in Tokens :
                balances'[a][t] = balances[a][t] + EscrowCredit(a, t)
    ]_vars

\* C35: every executed match lowers the amount of both matched orders by exactly
\* matchAmount, deactivates each of the two whose amount reaches 0 (so at least one of
\* them becomes inactive) and changes no other order.
C35_MatchBookkeeping ==
    [][MatchStep =>
          LET m == last'.match
              both == {m.buyOrderId, m.sellOrderId}
          IN  /\ m.buyOrderId # m.sellOrderId
              /\ \A i \in both :
                    /\ PlacedOrders[i].isActive
                    /\ orders'[i] =
                          [PlacedOrders[i] EXCEPT
                              !.amount = PlacedOrders[i].amount - m.matchAmount,
                              !.isActive = (PlacedOrders[i].amount - m.matchAmount # 0)]
              /\ \E i \in both : ~orders'[i].isActive /\ orders'[i].amount = 0
              /\ \A i \in OrderIds \ both : orders'[i] = PlacedOrders[i]
    ]_vars

\* C35 witness: a match filled one order completely and the other one partly, which stays
\* active, while a third order of the pair was open
C35_Witness ==
    /\ last.op = "placeLimitOrder" /\ last.result = "ok" /\ last.match.matched
    /\ last.match.matchAmount > 0
    /\ \E i, j \in {last.match.buyOrderId, last.match.sellOrderId} :
          /\ ~orders[i].isActive /\ orders[i].amount = 0
          /\ orders[j].isActive /\ 0 < orders[j].amount
          /\ orders[j].amount < initialAmount[j]
    /\ \E k \in Created \ {last.match.buyOrderId, last.match.sellOrderId} :
          orders[k].isActive /\ orders[k].amount > 0

\* C37: every executed limit match has sellOrder.price <= matchPrice <= buyOrder.price:
\* the buyer pays at most their limit per unit and the seller gets at least theirs.
C37_PriceWithinLimits ==
    [][MatchStep =>
          LET m == last'.match
          IN  /\ PlacedOrders[m.sellOrderId].price <= m.matchPrice
              /\ m.matchPrice <= PlacedOrders[m.buyOrderId].price
    ]_vars

\* C37 witness: a match between a buy and a sell with different limits ran at a price
\* strictly below the buyer's limit
C37_Witness ==
    /\ last.op = "placeLimitOrder" /\ last.result = "ok" /\ last.match.matched
    /\ last.match.matchAmount > 0
    /\ orders[last.match.sellOrderId].price < orders[last.match.buyOrderId].price
    /\ last.match.matchPrice < orders[last.match.buyOrderId].price
    /\ last.match.matchPrice >= orders[last.match.sellOrderId].price

\* this step is a call that failed and committed nothing
FailedCall == last'.result # "ok" /\ UNCHANGED <<chain, history>>

\* C32: if the external token transfer of a call does not succeed (transferFrom in
\* placeLimitOrder or placeMarketOrder, transfer in cancelOrder or withdraw), the call
\* fails and none of its ledger mutations is committed.
C32_TransferAtomicity ==
    [][\A env \in SilentTokenEnvs :
          /\ transferFrom(env) # "moved" =>
                /\ \A x \in TokenLimitInputs :
                      placeLimitOrderIn(env, MaxOrders, x[1], x[2], x[3], x[4], x[5], x[6])
                         => FailedCall
                /\ \A x \in TokenMarketInputs :
                      placeMarketOrderIn(env, x[1], x[2], x[3], x[4], x[5]) => FailedCall
          /\ \A c \in Accounts, i \in OrderIds :
                LET o == orders[i]
                    token == IF o.isBuy THEN o.quoteToken ELSE o.baseToken
                    pp == tradingPairs[<<o.baseToken, o.quoteToken>>].pricePrecision
                IN  (/\ token \in Tokens /\ pp # 0
                     /\ transfer(env, held[token], RefundAmount(o, pp)) # "moved"
                     /\ cancelOrderIn(env, c, i)) => FailedCall
          /\ \A c \in Accounts, t \in Tokens : \A a \in WithdrawAmounts(c, t) :
                (transfer(env, held[t], a) # "moved" /\ withdrawIn(env, c, t, a))
                   => FailedCall
    ]_vars

\* C39: while placeLimitOrder, placeMarketOrder, cancelOrder or withdraw is executing,
\* its external token call included, a nested call to any of the four fails; so no two
\* such calls are ever in progress together and the contract's state changes only when
\* the one call in progress completes.
C39_Reentrancy ==
    [][/\ \A call \in ReentryCalls :
             (suspended # <<>> /\ Enter(call)) =>
                /\ last'.result = "ReentrancyGuardReentrantCall"
                /\ UNCHANGED <<chain, history, guard>>
       /\ Len(suspended') <= 1
       /\ entered' = (suspended' # <<>>)
       /\ (chain' # chain /\ last'.op # "addTradingPair") =>
             /\ Len(suspended) = 1
             /\ suspended' = <<>>
             /\ Body(suspended[1])
    ]_vars

\* C39 witness: a call made while cancelOrder, with a refund to pay out, was in its token
\* call has been turned down by the lock
C39_Witness ==
    /\ last.result = "ReentrancyGuardReentrantCall"
    /\ last.op = "withdraw"
    /\ Len(suspended) = 1
    /\ suspended[1].op = "cancelOrder"
    /\ orders[suspended[1].orderId].isActive
    /\ orders[suspended[1].orderId].trader = suspended[1].caller
    /\ orders[suspended[1].orderId].amount > 0
    /\ entered
====
